---- MODULE Spec2Model ----
(***************************************************************************)
(* serialsniff: a pseudo-terminal / serial-port relay that copies the      *)
(* relayed chunks into a capture queue drained by a log thread.            *)
(*                                                                         *)
(* Four threads are modelled: main(), the incoming pump                    *)
(* (_incoming_data_thread_fn), the outgoing pump                           *)
(* (_outgoing_data_thread_fn) and the log sink (sniffer_log_thread_fn).    *)
(* Python switches threads between statements and around blocking calls,   *)
(* so every blocking call and every statement that touches shared state    *)
(* is a step of its own.                                                   *)
(***************************************************************************)
EXTENDS Integers, Sequences, FiniteSets, TLC

\* ---------------------------------------------------------------- bounds
\* Largest max_data_len a session is constructed with (bytes per read).
MaxDataLen == 2
\* Chunks the two pumps read in one run, both directions together (an empty
\* result of the outgoing read is no chunk and is not counted).
MaxReads == 2
\* Largest --columns value.
MaxColumns == 2

\* ------------------------------------------------------ program constants
INCOMING_ONLY == 1
OUTGOING_ONLY == 2
BIDIRECTIONAL == 3
INCOMING == 1
OUTGOING == 2
\* queue.Queue() is built without a maxsize: 0, which means no limit.
data_queue_maxsize == 0
\* "%H:%M:%S.%f" keeps the time of day only: clock ticks (seconds) in a day.
DayTicks == 86400

Mode == {INCOMING_ONLY, OUTGOING_ONLY, BIDIRECTIONAL}
Direction == {INCOMING, OUTGOING}

\* ------------------------------------------------------------ environment
\* What the client writes into the pty slave and what the device sends: the
\* pumps read them front to back in chunks of a length the kernel decides.
ClientStream == <<80, 73, 78, 71>>
DeviceStream == <<26, 65>>

\* The local `data` of a pump before its first read.
NoData == <<-1>>
\* The Data object a pump holds between Data(...) and data_queue.put(...).
NoItem == [data |-> NoData, time |-> -1, direction |-> 0]

VARIABLES
    mode,          \* SerialSniff.mode
    columns,       \* args.columns
    main_pc,       \* position of main()
    interrupted,   \* KeyboardInterrupt already delivered
    pty_master,    \* SerialSniff._pty_master: "unopened" | "open" | "closed"
    pty_slave,     \* SerialSniff._pty_slave
    serial,        \* SerialSniff._serial
    data_queue,    \* SerialSniff.data_queue
    clock,         \* datetime.now()
    incoming_pc,   \* position of _incoming_data_thread_fn
    incoming_data, \* its local `data`
    incoming_item, \* the Data object being enqueued
    outgoing_pc,   \* position of _outgoing_data_thread_fn
    outgoing_data,
    outgoing_item,
    log_pc,        \* position of sniffer_log_thread_fn
    log_out,       \* what the log sink has printed, one block per record
    client_read,   \* chunks os.read returned to the incoming pump
    device_written,\* bytes serial.write delivered to the device
    device_read,   \* non-empty chunks serial.read returned to the outgoing pump
    client_written,\* bytes os.write delivered to the pty master
    dequeued,      \* records data_queue.get returned
    enqueued,      \* records in the order their data_queue.put completed
    device_writes, \* serial.write calls that returned
    client_writes, \* os.write calls that returned
    io_errors      \* directions whose pump had a read or write raise

vars == <<mode, columns, main_pc, interrupted, pty_master, pty_slave, serial,
          data_queue, clock, incoming_pc, incoming_data, incoming_item,
          outgoing_pc, outgoing_data, outgoing_item, log_pc, log_out,
          client_read, device_written, device_read, client_written, dequeued,
          enqueued, device_writes, client_writes, io_errors>>

main_vars == <<main_pc, interrupted>>
handle_vars == <<pty_master, pty_slave, serial>>
incoming_vars == <<incoming_pc, incoming_data, incoming_item, client_read,
                   device_written, device_writes>>
outgoing_vars == <<outgoing_pc, outgoing_data, outgoing_item, device_read,
                   client_written, client_writes>>
queue_vars == <<data_queue, enqueued>>
log_vars == <<log_pc, log_out, dequeued>>
config_vars == <<mode, columns>>

\* ---------------------------------------------------------------- helpers
RECURSIVE Flatten(_)
Flatten(chunks) ==
    IF chunks = <<>> THEN <<>> ELSE Head(chunks) \o Flatten(Tail(chunks))

Min(a, b) == IF a < b THEN a ELSE b

IsPrefix(s, t) == Len(s) <= Len(t) /\ SubSeq(t, 1, Len(s)) = s

\* Python's data[start:stop] for 0 <= start, on a 0-based sequence.
Slice(data, start, stop) ==
    SubSeq(data, start + 1, Min(stop, Len(data)))

\* The process is gone once main() returned or an exception left it: the
\* threads are daemons.
ProcessAlive == main_pc \notin {"exited", "crashed", "construct_failed"}

Init ==
    /\ mode \in Mode
    /\ columns \in 1..MaxColumns
    /\ main_pc = "openpty"
    /\ interrupted = FALSE
    /\ pty_master = "unopened"
    /\ pty_slave = "unopened"
    /\ serial = "unopened"
    /\ data_queue = <<>>
    /\ clock = 0
    /\ incoming_pc = "unstarted"
    /\ incoming_data = NoData
    /\ incoming_item = NoItem
    /\ outgoing_pc = "unstarted"
    /\ outgoing_data = NoData
    /\ outgoing_item = NoItem
    /\ log_pc = "unstarted"
    /\ log_out = <<>>
    /\ client_read = <<>>
    /\ device_written = <<>>
    /\ device_read = <<>>
    /\ client_written = <<>>
    /\ dequeued = <<>>
    /\ enqueued = <<>>
    /\ device_writes = 0
    /\ client_writes = 0
    /\ io_errors = {}

\* ------------------------------------------------------------------ main()
\* A main() that swallows the exception and goes on.
construct_failure_ignored == "start_log"

\* An exception raised in SerialSniff.__init__ is no KeyboardInterrupt: no
\* handler of main() takes it, it leaves main() and ends the process.
construct_failure == "construct_failed"

\* SerialSniff.__init__, first statement: os.openpty() allocates both sides or
\* raises; the exception is no KeyboardInterrupt, so it leaves main().
Construct_openpty ==
    /\ main_pc = "openpty"
    /\ \/ /\ pty_master' = "open"
          /\ pty_slave' = "open"
          /\ main_pc' = "open_serial"
       \/ /\ UNCHANGED <<pty_master, pty_slave>>
          /\ main_pc' = construct_failure
    /\ UNCHANGED <<config_vars, interrupted, serial, queue_vars, clock,
                   incoming_vars, outgoing_vars, log_vars, io_errors>>

\* SerialSniff.__init__, the rest: timeout_s = (1 / baud) * timeout and
\* serial.Serial(...) raise for a zero baud rate, a missing device or a speed
\* the driver refuses; nothing closes the pty before the exception leaves.
\* On success the two thread objects and the queue are created, not started.
Construct_serial ==
    /\ main_pc = "open_serial"
    /\ \/ /\ serial' = "open"
          /\ main_pc' = "start_log"
       \/ /\ UNCHANGED serial
          /\ main_pc' = construct_failure
    /\ UNCHANGED <<config_vars, interrupted, pty_master, pty_slave, queue_vars,
                   clock, incoming_vars, outgoing_vars, log_vars, io_errors>>

\* main(): sniffer_log_thread.start()
Start_log ==
    /\ main_pc = "start_log"
    /\ log_pc' = "get"
    /\ main_pc' = "start_incoming"
    /\ UNCHANGED <<config_vars, interrupted, handle_vars, queue_vars, clock,
                   incoming_vars, outgoing_vars, log_out, dequeued,
                   io_errors>>

\* SerialSniff.start(): self._incoming_data_thread.start()
Start_incoming ==
    /\ main_pc = "start_incoming"
    /\ incoming_pc' = "read"
    /\ main_pc' = "start_outgoing"
    /\ UNCHANGED <<config_vars, interrupted, handle_vars, queue_vars, clock,
                   incoming_data, incoming_item, client_read, device_written,
                   device_writes, outgoing_vars, log_vars, io_errors>>

\* SerialSniff.start(): self._outgoing_data_thread.start()
Start_outgoing ==
    /\ main_pc = "start_outgoing"
    /\ outgoing_pc' = "read"
    /\ main_pc' = "join_incoming"
    /\ UNCHANGED <<config_vars, interrupted, handle_vars, queue_vars, clock,
                   outgoing_data, outgoing_item, device_read, client_written,
                   client_writes, incoming_vars, log_vars, io_errors>>

\* SerialSniff.join(): self._incoming_data_thread.join() returns once the
\* thread has ended, which it does only by an exception.
Join_incoming ==
    /\ main_pc = "join_incoming"
    /\ incoming_pc = "dead"
    /\ main_pc' = "join_outgoing"
    /\ UNCHANGED <<config_vars, interrupted, handle_vars, queue_vars, clock,
                   incoming_vars, outgoing_vars, log_vars, io_errors>>

\* A main() that tears the session down once both pumps have ended.
Join_outgoing_then_cleanup ==
    /\ main_pc = "join_outgoing"
    /\ outgoing_pc = "dead"
    /\ main_pc' = "cleanup_serial"
    /\ UNCHANGED <<config_vars, interrupted, handle_vars, queue_vars, clock,
                   incoming_vars, outgoing_vars, log_vars, io_errors>>

\* SerialSniff.join(): self._outgoing_data_thread.join(); main() then waits in
\* sniffer_log_thread.join(), which no step ends: the log thread never returns.
Join_outgoing ==
    /\ main_pc = "join_outgoing"
    /\ outgoing_pc = "dead"
    /\ main_pc' = "join_log"
    /\ UNCHANGED <<config_vars, interrupted, handle_vars, queue_vars, clock,
                   incoming_vars, outgoing_vars, log_vars, io_errors>>

\* `sniff` is bound once SerialSniff(...) has returned.
SniffBound ==
    main_pc \in {"start_log", "start_incoming", "start_outgoing",
                 "join_incoming", "join_outgoing", "join_log"}

\* main(): except KeyboardInterrupt. The interrupt reaches the main thread
\* anywhere in the try block; the handler calls sniff.cleanup(), which is a
\* NameError while SerialSniff(...) has not returned yet.
KeyboardInterrupt ==
    /\ ~interrupted
    /\ main_pc \in {"openpty", "open_serial"} \/ SniffBound
    /\ interrupted' = TRUE
    /\ main_pc' = IF SniffBound THEN "cleanup_serial" ELSE "crashed"
    /\ UNCHANGED <<config_vars, handle_vars, queue_vars, clock,
                   incoming_vars, outgoing_vars, log_vars, io_errors>>

\* SerialSniff.cleanup(): self._serial.close()
Cleanup_serial ==
    /\ main_pc = "cleanup_serial"
    /\ serial' = "closed"
    /\ main_pc' = "cleanup_slave"
    /\ UNCHANGED <<config_vars, interrupted, pty_master, pty_slave, queue_vars,
                   clock, incoming_vars, outgoing_vars, log_vars, io_errors>>

\* SerialSniff.cleanup(): os.close(self._pty_slave)
Cleanup_slave ==
    /\ main_pc = "cleanup_slave"
    /\ pty_slave' = "closed"
    /\ main_pc' = "cleanup_master"
    /\ UNCHANGED <<config_vars, interrupted, pty_master, serial, queue_vars,
                   clock, incoming_vars, outgoing_vars, log_vars, io_errors>>

\* A cleanup() that leaves the pty master open.
Cleanup_master_skipped ==
    /\ main_pc = "cleanup_master"
    /\ main_pc' = "cleaned"
    /\ UNCHANGED <<config_vars, interrupted, handle_vars, queue_vars,
                   clock, incoming_vars, outgoing_vars, log_vars, io_errors>>

\* SerialSniff.cleanup(): os.close(self._pty_master)
Cleanup_master ==
    /\ main_pc = "cleanup_master"
    /\ pty_master' = "closed"
    /\ main_pc' = "cleaned"
    /\ UNCHANGED <<config_vars, interrupted, pty_slave, serial, queue_vars,
                   clock, incoming_vars, outgoing_vars, log_vars, io_errors>>

\* main() returns after the handler; the interpreter exits and takes the
\* daemon threads with it.
Exit ==
    /\ main_pc = "cleaned"
    /\ main_pc' = "exited"
    /\ UNCHANGED <<config_vars, interrupted, handle_vars, queue_vars, clock,
                   incoming_vars, outgoing_vars, log_vars, io_errors>>

\* ------------------------------------------------- SerialSniff, the pumps
\* SerialSniff._max_data_len
max_data_len == MaxDataLen

\* What a read can return next: the first k bytes of what the source has not
\* delivered yet, k up to the size asked for (k = 0: an empty result).
NextChunks(stream, consumed, size) ==
    { Slice(stream, consumed, consumed + k) :
        k \in 0..Min(size, Len(stream) - consumed) }

\* The bound on the chunks of one run.
MoreReads == Len(client_read) + Len(device_read) < MaxReads

\* A filter that accepts the other direction.
should_capture_other(m, direction) ==
    m = BIDIRECTIONAL \/ m # direction

\* _output_data_to_queue, the condition:
\* self.mode == Mode.BIDIRECTIONAL or int(self.mode) == int(direction)
should_capture(m, direction) ==
    m = BIDIRECTIONAL \/ m = direction

\* A filter that gates the write: a refused chunk goes back to the read.
after_capture_gated(accepted) == IF accepted THEN "put" ELSE "read"

\* _output_data_to_queue is a call inside the loop body: whatever the filter
\* says, the statement after the call is the write.
after_capture(accepted) == IF accepted THEN "put" ELSE "write"

\* SerialSniff.Data.__init__: the timestamp is taken when the object is made.
Data(data, direction) ==
    [data |-> data, time |-> clock, direction |-> direction]

\* A queue of one slot.
put_may_proceed_bounded(q) == Len(q) < 1

\* queue.Queue.put: waits while maxsize > 0 and the queue holds maxsize items.
put_may_proceed(q) ==
    data_queue_maxsize > 0 => Len(q) < data_queue_maxsize

\* A put that drops the record when the queue holds one already.
queue_put_dropped(q, item) == IF q = <<>> THEN <<item>> ELSE q

\* A put that adds on the left.
queue_put_left(q, item) == <<item>> \o q

\* queue.Queue.put appends on the right, queue.Queue.get takes from the left.
queue_put(q, item) == Append(q, item)

\* A write that delivers the chunk twice.
write_all_twice(written, data) == written \o data \o data

\* self._serial.write(data) / os.write(self._pty_master, data) that returns:
\* the destination has received the chunk after what it had received before.
write_all(written, data) == written \o data

\* What reaches the destination of a write that raises part-way: a proper
\* prefix of the chunk.
ProperPrefixes(data) ==
    { SubSeq(data, 1, k) : k \in 0..(Len(data) - 1) }

\* A loop that catches the exception and reads again.
after_error_retry(pc) == "read"

\* The loops hold no try: an exception raised at position pc leaves the thread
\* function and the thread ends.
after_error(pc) == "dead"

\* A loop that ends at the first timeout: `if not data: break`.
after_check_stops(data) == IF data # <<>> THEN "capture" ELSE "dead"

\* A loop without the `if data:`.
after_check_unguarded(data) == "capture"

\* `if data:` in _outgoing_data_thread_fn
after_check(data) == IF data # <<>> THEN "capture" ELSE "read"

\* _incoming_data_thread_fn: poll.poll() returns an event for the registered
\* descriptor (POLLNVAL once it is closed) and os.read is called: EBADF on a
\* closed descriptor ends the thread, otherwise the call blocks.
Incoming_read_begin ==
    /\ ProcessAlive
    /\ incoming_pc = "read"
    /\ IF pty_master = "open"
          THEN /\ incoming_pc' = "reading"
               /\ UNCHANGED io_errors
          ELSE /\ incoming_pc' = after_error("read")
               /\ io_errors' = io_errors \cup {INCOMING}
    /\ UNCHANGED <<config_vars, main_vars, handle_vars, queue_vars, clock,
                   incoming_data, incoming_item, client_read, device_written,
                   device_writes, outgoing_vars, log_vars>>

\* os.read(self._pty_master, self._max_data_len) returns: a chunk of up to
\* max_data_len bytes, possibly empty, or OSError, which ends the thread.
Incoming_read_return ==
    /\ ProcessAlive
    /\ incoming_pc = "reading"
    /\ \/ /\ MoreReads
          /\ \E data \in NextChunks(ClientStream, Len(Flatten(client_read)),
                                    max_data_len) :
                /\ incoming_data' = data
                /\ client_read' = Append(client_read, data)
          /\ incoming_pc' = "capture"
          /\ UNCHANGED io_errors
       \/ /\ incoming_pc' = after_error("reading")
          /\ io_errors' = io_errors \cup {INCOMING}
          /\ UNCHANGED <<incoming_data, client_read>>
    /\ UNCHANGED <<config_vars, main_vars, handle_vars, queue_vars, clock,
                   incoming_item, device_written, device_writes,
                   outgoing_vars, log_vars>>

\* _output_data_to_queue(data, INCOMING) up to SerialSniff.Data(...): the
\* filter is evaluated and, when it accepts, the record is made and stamped.
Incoming_capture ==
    /\ ProcessAlive
    /\ incoming_pc = "capture"
    /\ incoming_pc' = after_capture(should_capture(mode, INCOMING))
    /\ IF should_capture(mode, INCOMING)
          THEN /\ incoming_item' = Data(incoming_data, INCOMING)
               /\ clock' = clock + 1
          ELSE UNCHANGED <<incoming_item, clock>>
    /\ UNCHANGED <<config_vars, main_vars, handle_vars, queue_vars,
                   incoming_data, client_read, device_written, device_writes,
                   outgoing_vars, log_vars, io_errors>>

\* A pump that goes back to its read after the put: the chunk is recorded
\* and never written.
Incoming_put_then_read ==
    /\ ProcessAlive
    /\ incoming_pc = "put"
    /\ put_may_proceed(data_queue)
    /\ data_queue' = queue_put(data_queue, incoming_item)
    /\ enqueued' = Append(enqueued, incoming_item)
    /\ incoming_item' = NoItem
    /\ incoming_pc' = "read"
    /\ UNCHANGED <<config_vars, main_vars, handle_vars, clock, incoming_data,
                   client_read, device_written, device_writes,
                   outgoing_vars, log_vars, io_errors>>

\* self.data_queue.put(...)
Incoming_put ==
    /\ ProcessAlive
    /\ incoming_pc = "put"
    /\ put_may_proceed(data_queue)
    /\ data_queue' = queue_put(data_queue, incoming_item)
    /\ enqueued' = Append(enqueued, incoming_item)
    /\ incoming_item' = NoItem
    /\ incoming_pc' = "write"
    /\ UNCHANGED <<config_vars, main_vars, handle_vars, clock, incoming_data,
                   client_read, device_written, device_writes,
                   outgoing_vars, log_vars, io_errors>>

\* self._serial.write(data): raises on a closed port; on an open one it
\* delivers the whole chunk, or raises having delivered a proper prefix of a
\* non-empty chunk. An exception ends the thread.
Incoming_write ==
    /\ ProcessAlive
    /\ incoming_pc = "write"
    /\ IF serial # "open"
          THEN /\ incoming_pc' = after_error("write")
               /\ io_errors' = io_errors \cup {INCOMING}
               /\ UNCHANGED <<device_written, device_writes>>
          ELSE \/ /\ device_written' = write_all(device_written, incoming_data)
                  /\ device_writes' = device_writes + 1
                  /\ incoming_pc' = "read"
                  /\ UNCHANGED io_errors
               \/ /\ \E part \in ProperPrefixes(incoming_data) :
                        device_written' = device_written \o part
                  /\ incoming_pc' = after_error("write")
                  /\ io_errors' = io_errors \cup {INCOMING}
                  /\ UNCHANGED device_writes
    /\ UNCHANGED <<config_vars, main_vars, handle_vars, queue_vars, clock,
                   incoming_data, incoming_item, client_read,
                   outgoing_vars, log_vars>>

\* _outgoing_data_thread_fn: self._serial.read(...) is called: it raises on a
\* closed port, which ends the thread, otherwise it blocks up to the timeout.
Outgoing_read_begin ==
    /\ ProcessAlive
    /\ outgoing_pc = "read"
    /\ IF serial = "open"
          THEN /\ outgoing_pc' = "reading"
               /\ UNCHANGED io_errors
          ELSE /\ outgoing_pc' = after_error("read")
               /\ io_errors' = io_errors \cup {OUTGOING}
    /\ UNCHANGED <<config_vars, main_vars, handle_vars, queue_vars, clock,
                   outgoing_data, outgoing_item, device_read, client_written,
                   client_writes, incoming_vars, log_vars>>

\* self._serial.read(self._max_data_len) returns: a chunk of up to
\* max_data_len bytes, the empty result of a timeout, or a SerialException,
\* which ends the thread.
Outgoing_read_return ==
    /\ ProcessAlive
    /\ outgoing_pc = "reading"
    /\ \/ /\ \E data \in NextChunks(DeviceStream, Len(Flatten(device_read)),
                                    max_data_len) :
                /\ data # <<>> => MoreReads
                /\ outgoing_data' = data
                /\ device_read' = IF data # <<>> THEN Append(device_read, data)
                                                 ELSE device_read
          /\ outgoing_pc' = "check"
          /\ UNCHANGED io_errors
       \/ /\ outgoing_pc' = after_error("reading")
          /\ io_errors' = io_errors \cup {OUTGOING}
          /\ UNCHANGED <<outgoing_data, device_read>>
    /\ UNCHANGED <<config_vars, main_vars, handle_vars, queue_vars, clock,
                   outgoing_item, client_written, client_writes,
                   incoming_vars, log_vars>>

\* `if data:`: an empty result goes back to the read, a chunk goes on.
Outgoing_check ==
    /\ ProcessAlive
    /\ outgoing_pc = "check"
    /\ outgoing_pc' = after_check(outgoing_data)
    /\ UNCHANGED <<config_vars, main_vars, handle_vars, queue_vars, clock,
                   outgoing_data, outgoing_item, device_read, client_written,
                   client_writes, incoming_vars, log_vars, io_errors>>

\* _output_data_to_queue(data, OUTGOING) up to SerialSniff.Data(...)
Outgoing_capture ==
    /\ ProcessAlive
    /\ outgoing_pc = "capture"
    /\ outgoing_pc' = after_capture(should_capture(mode, OUTGOING))
    /\ IF should_capture(mode, OUTGOING)
          THEN /\ outgoing_item' = Data(outgoing_data, OUTGOING)
               /\ clock' = clock + 1
          ELSE UNCHANGED <<outgoing_item, clock>>
    /\ UNCHANGED <<config_vars, main_vars, handle_vars, queue_vars,
                   outgoing_data, device_read, client_written, client_writes,
                   incoming_vars, log_vars, io_errors>>

\* self.data_queue.put(...)
Outgoing_put ==
    /\ ProcessAlive
    /\ outgoing_pc = "put"
    /\ put_may_proceed(data_queue)
    /\ data_queue' = queue_put(data_queue, outgoing_item)
    /\ enqueued' = Append(enqueued, outgoing_item)
    /\ outgoing_item' = NoItem
    /\ outgoing_pc' = "write"
    /\ UNCHANGED <<config_vars, main_vars, handle_vars, clock, outgoing_data,
                   device_read, client_written, client_writes,
                   incoming_vars, log_vars, io_errors>>

\* An outgoing pump that writes its chunk back to the serial port.
Outgoing_write_to_serial ==
    /\ ProcessAlive
    /\ outgoing_pc = "write"
    /\ IF serial # "open"
          THEN /\ outgoing_pc' = after_error("write")
               /\ io_errors' = io_errors \cup {OUTGOING}
               /\ UNCHANGED <<device_written, client_writes>>
          ELSE /\ device_written' = write_all(device_written, outgoing_data)
               /\ client_writes' = client_writes + 1
               /\ outgoing_pc' = "read"
               /\ UNCHANGED io_errors
    /\ UNCHANGED <<config_vars, main_vars, handle_vars, queue_vars, clock,
                   outgoing_data, outgoing_item, device_read, client_written,
                   incoming_pc, incoming_data, incoming_item, client_read,
                   device_writes, log_vars>>

\* os.write(self._pty_master, data): EBADF on a closed descriptor; on an open
\* one the chunk is delivered, or OSError is raised having delivered a proper
\* prefix. An exception ends the thread.
Outgoing_write ==
    /\ ProcessAlive
    /\ outgoing_pc = "write"
    /\ IF pty_master # "open"
          THEN /\ outgoing_pc' = after_error("write")
               /\ io_errors' = io_errors \cup {OUTGOING}
               /\ UNCHANGED <<client_written, client_writes>>
          ELSE \/ /\ client_written' = write_all(client_written, outgoing_data)
                  /\ client_writes' = client_writes + 1
                  /\ outgoing_pc' = "read"
                  /\ UNCHANGED io_errors
               \/ /\ \E part \in ProperPrefixes(outgoing_data) :
                        client_written' = client_written \o part
                  /\ outgoing_pc' = after_error("write")
                  /\ io_errors' = io_errors \cup {OUTGOING}
                  /\ UNCHANGED client_writes
    /\ UNCHANGED <<config_vars, main_vars, handle_vars, queue_vars, clock,
                   outgoing_data, outgoing_item, device_read,
                   incoming_vars, log_vars>>

\* ------------------------------------------------ sniffer_log_thread_fn
\* Characters are one-character strings, text is a sequence of them.
HexDigits ==
    << "0", "1", "2", "3", "4", "5", "6", "7",
       "8", "9", "a", "b", "c", "d", "e", "f" >>

\* The characters of codes 32..126, in order (code 96, which a string of this
\* language cannot hold, is written "grave").
Printable ==
    <<
       " ", "!", "\"", "#", "$", "%", "&", "'", "(", ")", "*", "+",
       ",", "-", ".", "/", "0", "1", "2", "3", "4", "5", "6", "7",
       "8", "9", ":", ";", "<", "=", ">", "?", "@", "A", "B", "C",
       "D", "E", "F", "G", "H", "I", "J", "K", "L", "M", "N", "O",
       "P", "Q", "R", "S", "T", "U", "V", "W", "X", "Y", "Z", "[",
       "\\", "]", "^", "_", "grave", "a", "b", "c", "d", "e", "f", "g",
       "h", "i", "j", "k", "l", "m", "n", "o", "p", "q", "r", "s",
       "t", "u", "v", "w", "x", "y", "z", "{", "|", "}", "~" >>

RECURSIVE Spaces(_)
Spaces(n) == IF n <= 0 THEN <<>> ELSE <<" ">> \o Spaces(n - 1)

\* bytes.hex(): two lower-case digits a byte.
RECURSIVE hex(_)
hex(data_bytes) ==
    IF data_bytes = <<>> THEN <<>>
    ELSE << HexDigits[(Head(data_bytes) \div 16) + 1],
            HexDigits[(Head(data_bytes) % 16) + 1] >> \o hex(Tail(data_bytes))

\* ' '.join(a+b for a, b in zip(s[::2], s[1::2]))
RECURSIVE join_pairs(_)
join_pairs(s) ==
    IF Len(s) < 2 THEN <<>>
    ELSE IF Len(s) < 4 THEN <<s[1], s[2]>>
    ELSE <<s[1], s[2], " ">> \o join_pairs(SubSeq(s, 3, Len(s)))

\* The quote repr() puts around a bytes value: " when the value holds a '
\* and no ", otherwise '.
repr_quote(data_bytes) ==
    IF (\E i \in 1..Len(data_bytes) : data_bytes[i] = 39)
       /\ ~(\E i \in 1..Len(data_bytes) : data_bytes[i] = 34)
    THEN 34 ELSE 39

\* repr() of one byte inside a bytes literal.
byte_repr(b, quote) ==
    IF b = quote \/ b = 92 THEN <<"\\", Printable[b - 31]>>
    ELSE IF b = 9 THEN <<"\\", "t">>
    ELSE IF b = 10 THEN <<"\\", "n">>
    ELSE IF b = 13 THEN <<"\\", "r">>
    ELSE IF b < 32 \/ b >= 127
         THEN <<"\\", "x", HexDigits[(b \div 16) + 1], HexDigits[(b % 16) + 1]>>
    ELSE <<Printable[b - 31]>>

RECURSIVE repr_body(_, _)
repr_body(data_bytes, quote) ==
    IF data_bytes = <<>> THEN <<>>
    ELSE byte_repr(Head(data_bytes), quote) \o repr_body(Tail(data_bytes), quote)

\* str(data_bytes)[2:-1]
data_str(data_bytes) == repr_body(data_bytes, repr_quote(data_bytes))

\* str.ljust(width, ' ')
ljust(s, width) == s \o Spaces(width - Len(s))

\* One body line: the arguments of "\t{} {}".format(...)
body_line(data_bytes, cols) ==
    [text |-> ljust(data_str(data_bytes), cols * 4),
     hex  |-> join_pairs(hex(data_bytes))]

\* The while loop: one line per slice data.data[start:start+columns] until a
\* slice is empty.
RECURSIVE body_lines(_, _, _)
body_lines(data, cols, start) ==
    LET data_bytes == Slice(data, start, start + cols)
    IN  IF data_bytes = <<>> THEN <<>>
        ELSE <<body_line(data_bytes, cols)>>
             \o body_lines(data, cols, start + cols)

\* data.time.strftime("%H:%M:%S.%f"): the time of day, the date dropped.
strftime(time) == time % DayTicks

\* "{} {} ({} bytes)".format(direction, timestamp, data_len)
details(item) ==
    [direction |-> IF item.direction = INCOMING THEN "[INCOMING]"
                                                ELSE "[OUTGOING]",
     timestamp |-> strftime(item.time),
     data_len  |-> Len(item.data)]

\* Everything printed for one record.
render(item, cols) ==
    [header |-> details(item), body |-> body_lines(item.data, cols, 0)]

\* One turn of the loop: data_queue.get() waits for a record, the record is
\* printed. Only this thread prints once the pumps are started.
Log_record ==
    /\ ProcessAlive
    /\ log_pc = "get"
    /\ data_queue # <<>>
    /\ dequeued' = Append(dequeued, Head(data_queue))
    /\ data_queue' = Tail(data_queue)
    /\ log_out' = Append(log_out, render(Head(data_queue), columns))
    /\ UNCHANGED <<config_vars, main_vars, handle_vars, clock, log_pc,
                   enqueued, incoming_vars, outgoing_vars, io_errors>>

\* ------------------------------------------------------- specification
Next ==
    \/ Construct_openpty
    \/ Construct_serial
    \/ Start_log
    \/ Start_incoming
    \/ Start_outgoing
    \/ Join_incoming
    \/ Join_outgoing
    \/ KeyboardInterrupt
    \/ Cleanup_serial
    \/ Cleanup_slave
    \/ Cleanup_master
    \/ Exit
    \/ Incoming_read_begin
    \/ Incoming_read_return
    \/ Incoming_capture
    \/ Incoming_put
    \/ Incoming_write
    \/ Outgoing_read_begin
    \/ Outgoing_read_return
    \/ Outgoing_check
    \/ Outgoing_capture
    \/ Outgoing_put
    \/ Outgoing_write
    \/ Log_record

Spec == Init /\ [][Next]_vars

\* The log thread is a thread of a running interpreter: as long as a record is
\* queued its get returns and the record is printed.
FairSpec == Spec /\ WF_vars(Log_record)
\* ------------------------------------------------------------- properties
\* The chunks a direction's pump has read / the bytes its destination got /
\* the writes that returned / its position.
chunks_read(d) == IF d = INCOMING THEN client_read ELSE device_read
bytes_written(d) == IF d = INCOMING THEN device_written ELSE client_written
writes_returned(d) == IF d = INCOMING THEN device_writes ELSE client_writes
pump_pc(d) == IF d = INCOMING THEN incoming_pc ELSE outgoing_pc

\* The payloads of the records of direction d in a sequence of records.
payloads(records, d) ==
    LET of_d == SelectSeq(records, LAMBDA r : r.direction = d)
    IN  [i \in 1..Len(of_d) |-> of_d[i].data]

\* The chunks of direction d that have passed _output_data_to_queue: all that
\* were read, but the one the pump still holds before or inside the call.
chunks_offered(d) ==
    IF \/ pump_pc(d) \in {"capture", "put"}
       \/ d = OUTGOING /\ outgoing_pc = "check" /\ outgoing_data # <<>>
    THEN SubSeq(chunks_read(d), 1, Len(chunks_read(d)) - 1)
    ELSE chunks_read(d)

\* C1: in each direction the bytes written to the destination are a prefix of
\* the bytes read from the source, and they are all of them whenever a write
\* has returned for every chunk read.
C1_RelayedBytesArePrefix ==
    \A d \in Direction :
        /\ IsPrefix(bytes_written(d), Flatten(chunks_read(d)))
        /\ writes_returned(d) = Len(chunks_read(d))
              => bytes_written(d) = Flatten(chunks_read(d))

\* Both directions have relayed a chunk in full.
C1_Witness ==
    /\ device_writes = 1 /\ device_written = Flatten(client_read)
    /\ client_writes = 1 /\ client_written = Flatten(device_read)
    /\ Len(device_written) = 2 /\ Len(client_written) = 1

\* The mode/direction pairs C2 lists.
Accepts(m, d) ==
    \/ m = BIDIRECTIONAL
    \/ m = INCOMING_ONLY /\ d = INCOMING
    \/ m = OUTGOING_ONLY /\ d = OUTGOING

\* C2: the records enqueued for a direction are, in a mode that accepts it,
\* one per chunk offered, carrying the chunk and the direction; in a mode that
\* does not, none.
C2_OneRecordPerAcceptedChunk ==
    \A d \in Direction :
        /\ payloads(enqueued, d) =
              IF Accepts(mode, d) THEN chunks_offered(d) ELSE <<>>
        /\ payloads(data_queue, d) # <<>> => Accepts(mode, d)

\* IncomingOnly: one chunk of each direction has been relayed, the queue got
\* the incoming one only.
C2_Witness ==
    /\ mode = INCOMING_ONLY
    /\ device_writes = 1 /\ client_writes = 1
    /\ Len(enqueued) = 1 /\ enqueued[1].direction = INCOMING
    /\ enqueued[1].data = client_read[1]

\* C3: the records dequeued for a direction carry that direction's chunks in
\* the order they were read, and the records dequeued followed by those still
\* queued are the records in the order their put completed.
C3_QueueIsFifo ==
    /\ \A d \in Direction :
          IsPrefix(payloads(dequeued, d), chunks_read(d))
    /\ dequeued \o data_queue = enqueued

\* Two chunks of one direction were queued together and dequeued in the
\* order read.
C3_Witness ==
    /\ Len(dequeued) = 2
    /\ dequeued[1].direction = dequeued[2].direction
    /\ dequeued[1].data # dequeued[2].data
    /\ dequeued[1].time + 1 = dequeued[2].time
    /\ \E d \in Direction : payloads(dequeued, d) = chunks_read(d)

\* C4: in every mode, whether or not the filter accepts the direction, a pump
\* that is back at its read has had a write return for every chunk it read,
\* and the destination holds exactly the chunks read.
C4_CaptureNeverGatesDelivery ==
    \A m \in Mode : \A d \in Direction :
        (mode = m /\ pump_pc(d) \in {"read", "reading"})
            => /\ writes_returned(d) = Len(chunks_read(d))
               /\ bytes_written(d) = Flatten(chunks_read(d))

\* OutgoingOnly: an incoming chunk the filter refused has reached the device.
C4_Witness ==
    /\ mode = OUTGOING_ONLY
    /\ incoming_pc = "read"
    /\ device_written = <<80, 73>>
    /\ enqueued = <<>>

\* C5: a put never waits, however many records the queue holds and whether or
\* not the log sink ever takes one: a pump at its put can complete it and go
\* on to its write; the only step that waits on the queue is the log sink's
\* get, on an empty queue.
C5_PutNeverBlocks ==
    /\ (ProcessAlive /\ incoming_pc = "put")
          => ENABLED (Incoming_put /\ incoming_pc' = "write")
    /\ (ProcessAlive /\ outgoing_pc = "put")
          => ENABLED (Outgoing_put /\ outgoing_pc' = "write")
    /\ (ProcessAlive /\ log_pc = "get" /\ data_queue = <<>>)
          => ~ENABLED Log_record

\* The log sink has taken nothing, two records are queued, and both pumps
\* have gone on to write their chunk.
C5_Witness ==
    /\ dequeued = <<>>
    /\ Len(data_queue) = 2
    /\ device_writes + client_writes = 2

\* C6: an empty result of the device read enqueues nothing, writes nothing,
\* changes neither the queue nor the endpoints, raises nothing, and the pump
\* goes back to its read.
C6_EmptyReadIsSkipped ==
    [][ /\ (outgoing_pc = "reading" /\ outgoing_pc' = "check"
              /\ outgoing_data' = <<>>)
           => UNCHANGED <<data_queue, enqueued, client_written, client_writes,
                          device_read, handle_vars, io_errors>>
        /\ (outgoing_pc = "check" /\ outgoing_data = <<>>
              /\ outgoing_pc' # "check")
           => /\ outgoing_pc' = "read"
              /\ UNCHANGED <<data_queue, enqueued, client_written,
                             client_writes, device_read, handle_vars,
                             io_errors>> ]_vars

\* After an empty result the pump is in its next read, nothing relayed.
C6_Witness ==
    /\ outgoing_pc = "reading"
    /\ outgoing_data = <<>>
    /\ device_read = <<>> /\ client_written = <<>> /\ enqueued = <<>>
    /\ OUTGOING \notin io_errors

\* C7: after a construction failure no thread is ever started, and a pump
\* that has been started runs in a session whose pty and serial port were
\* opened and whose start() has been reached.
C7_NoPumpAfterFailedConstruction ==
    /\ main_pc = "construct_failed"
          => /\ incoming_pc = "unstarted"
             /\ outgoing_pc = "unstarted"
             /\ log_pc = "unstarted"
    /\ \A d \in Direction :
          pump_pc(d) # "unstarted"
             => /\ pty_master # "unopened" /\ pty_slave # "unopened"
                /\ serial # "unopened"
                /\ main_pc \notin {"openpty", "open_serial", "start_log",
                                   "construct_failed"}

\* The serial port failed to open after the pty was allocated.
C7_Witness ==
    /\ main_pc = "construct_failed"
    /\ pty_master = "open"
    /\ serial = "unopened"

\* C8: a pump has ended exactly when a read or write of its own raised; the
\* step that ends one pump changes nothing of the other.
C8_FailureEndsOnlyItsPump ==
    /\ [](\A d \in Direction : d \in io_errors <=> pump_pc(d) = "dead")
    /\ [][ /\ (incoming_pc # "dead" /\ incoming_pc' = "dead")
              => UNCHANGED outgoing_vars
           /\ (outgoing_pc # "dead" /\ outgoing_pc' = "dead")
              => UNCHANGED incoming_vars ]_vars

\* One-directional: the incoming pump died in its first read, the outgoing
\* pump has relayed two chunks and is reading on.
C8_Witness ==
    /\ io_errors = {INCOMING}
    /\ incoming_pc = "dead" /\ client_read = <<>>
    /\ outgoing_pc = "reading" /\ client_writes = 2
    /\ ~interrupted

\* C9: an endpoint is closed only after the interrupt; cleanup() done, all
\* three are closed; the steps of cleanup() change nothing of the pumps; and
\* once cleanup() is done, a pump that begins a read, or attempts a write,
\* ends there, relaying and enqueuing nothing.
AllClosed ==
    pty_master = "closed" /\ pty_slave = "closed" /\ serial = "closed"

C9_TeardownOnInterrupt ==
    /\ []((\E h \in {pty_master, pty_slave, serial} : h = "closed")
             => interrupted)
    /\ [](main_pc \in {"cleaned", "exited"} => AllClosed)
    /\ [][ /\ (main_pc \in {"cleanup_serial", "cleanup_slave",
                            "cleanup_master"} /\ main_pc' # main_pc)
              => UNCHANGED <<incoming_vars, outgoing_vars, queue_vars>>
           /\ \A d \in Direction :
                (main_pc = "cleaned" /\ pump_pc(d) \in {"read", "write"}
                   /\ pump_pc(d)' # pump_pc(d))
                => /\ pump_pc(d)' = "dead"
                   /\ UNCHANGED <<queue_vars, client_read, device_read,
                                  device_written, client_written,
                                  device_writes, client_writes>> ]_vars

\* cleanup() is done and both pumps, which had relayed before, have ended.
C9_Witness ==
    /\ main_pc = "cleaned"
    /\ incoming_pc = "dead" /\ outgoing_pc = "dead"
    /\ device_writes = 1 /\ client_writes = 1

\* The value of a hex digit, and the bytes a hex column shows: two digits a
\* byte, one space between bytes.
hex_value(c) == CHOOSE v \in 0..15 : HexDigits[v + 1] = c

RECURSIVE bytes_shown(_)
bytes_shown(column) ==
    IF Len(column) < 2 THEN <<>>
    ELSE <<16 * hex_value(column[1]) + hex_value(column[2])>>
         \o bytes_shown(SubSeq(column, 4, Len(column)))

\* The number of body lines C10 gives: ceil(N / columns).
lines_needed(n, cols) == (n + cols - 1) \div cols

\* What C10 says of the block printed for a record.
block_covers_payload(block, item) ==
    LET n == Len(item.data)
        shown == [j \in 1..Len(block.body) |-> bytes_shown(block.body[j].hex)]
    IN  /\ block.header.direction =
              (IF item.direction = INCOMING THEN "[INCOMING]"
                                            ELSE "[OUTGOING]")
        /\ block.header.data_len = n
        /\ Len(block.body) = lines_needed(n, columns)
        /\ \A j \in 1..Len(block.body) :
              /\ Len(shown[j]) <= columns
              /\ shown[j] = Slice(item.data, (j - 1) * columns, j * columns)
              /\ Len(block.body[j].hex) = 3 * Len(shown[j]) - 1
        /\ Flatten(shown) = item.data

\* C10: the block printed for every dequeued record has a header with the
\* record's direction and byte count and one or more body lines, which show
\* consecutive slices of at most `columns` bytes whose hex columns put
\* together are the payload.
C10_BlockHasBodyCoveringPayload ==
    \A i \in 1..Len(log_out) :
        /\ block_covers_payload(log_out[i], dequeued[i])
        /\ Len(log_out[i].body) >= 1

\* The same without "one or more": what holds of every block, and "one or
\* more" for the records that carry bytes.
RenderCoversPayload ==
    /\ Len(log_out) = Len(dequeued)
    /\ \A i \in 1..Len(log_out) :
          /\ block_covers_payload(log_out[i], dequeued[i])
          /\ dequeued[i].data # <<>> => Len(log_out[i].body) >= 1

\* A record without bytes has been printed: a header and no body line.
EmptyRecordPrinted ==
    \E i \in 1..Len(log_out) :
        /\ dequeued[i].data = <<>>
        /\ log_out[i].header.data_len = 0
        /\ log_out[i].body = <<>>

\* A record of two bytes printed on two lines / on one line.
TwoLinesPrinted ==
    \E i \in 1..Len(log_out) :
        /\ columns = 1 /\ Len(dequeued[i].data) = 2 /\ Len(log_out[i].body) = 2

SpecExamplePrinted ==
    \E i \in 1..Len(log_out) :
        /\ columns = 2 /\ dequeued[i].data = <<26, 65>>
        /\ log_out[i].body =
              << [text |-> <<"\\", "x", "1", "a", "A", " ", " ", " ">>,
                  hex  |-> <<"1", "a", " ", "4", "1">>] >>


\* ------------------------------------------- properties: tasks and handles
\* A pump may be using its handles from its start to its end.
pump_live(d) == pump_pc(d) \notin {"unstarted", "dead"}

\* The variables only the pump of direction d writes.
own_vars(d) == IF d = INCOMING THEN incoming_vars ELSE outgoing_vars
other(d) == IF d = INCOMING THEN OUTGOING ELSE INCOMING

\* The pty master is read in os.read of the incoming pump only and written in
\* os.write of the outgoing pump only; the serial port is read in serial.read
\* of the outgoing pump only and written in serial.write of the incoming pump
\* only.
EndpointsOnePumpEach ==
    /\ client_read' # client_read
          => incoming_pc = "reading" /\ UNCHANGED outgoing_vars
    /\ <<device_written, device_writes>>' # <<device_written, device_writes>>
          => incoming_pc = "write" /\ UNCHANGED outgoing_vars
    /\ device_read' # device_read
          => outgoing_pc = "reading" /\ UNCHANGED incoming_vars
    /\ <<client_written, client_writes>>' # <<client_written, client_writes>>
          => outgoing_pc = "write" /\ UNCHANGED incoming_vars

\* A step of a running pump changes its own variables and the queue, never
\* those of the other pump, of the log sink or of main(), nor a handle; a
\* step of the log sink changes its own variables and the queue only.
TasksShareOnlyTheQueue ==
    /\ \A d \in Direction :
          (pump_live(d) /\ own_vars(d)' # own_vars(d))
             => UNCHANGED <<own_vars(other(d)), log_vars, main_vars,
                            handle_vars, config_vars>>
    /\ (log_pc = "get" /\ log_vars' # log_vars)
          => UNCHANGED <<incoming_vars, outgoing_vars, main_vars,
                         handle_vars, config_vars, enqueued>>

\* A handle is opened or closed only while no pump may be using it.
HandlesChangeOnlyWithoutPumps ==
    handle_vars' # handle_vars => \A d \in Direction : ~pump_live(d)

\* A handle is opened or closed while a pump may be using it only by a step
\* of cleanup(), in main(), after the interrupt.
HandlesChangeUnderPumpsOnlyInCleanup ==
    (handle_vars' # handle_vars /\ \E d \in Direction : pump_live(d))
       => /\ interrupted
          /\ main_pc \in {"cleanup_serial", "cleanup_slave", "cleanup_master"}
          /\ main_pc' # main_pc
          /\ UNCHANGED <<incoming_vars, outgoing_vars, log_vars, queue_vars>>

\* C11 as stated: each endpoint is read by one pump and written by one pump,
\* the tasks share no state but the queue, and no task other than the pumps
\* operates on a handle while a pump may be using it.
C11_HandlesUntouchedWhilePumpsRun ==
    [][ /\ EndpointsOnePumpEach
        /\ TasksShareOnlyTheQueue
        /\ HandlesChangeOnlyWithoutPumps ]_vars

\* C11, amended: each endpoint is read by one pump and written by one pump,
\* the tasks share no state but the queue, and the only task other than the
\* pumps that operates on a handle while a pump may be using it is main(), in
\* cleanup() after the interrupt, which closes the handles under the pumps.
C11_OnlyCleanupTouchesHandlesOfPumps ==
    [][ /\ EndpointsOnePumpEach
        /\ TasksShareOnlyTheQueue
        /\ HandlesChangeUnderPumpsOnlyInCleanup ]_vars

\* Both pumps have relayed a chunk and are inside their next read when
\* cleanup() has closed the serial port and goes on to the pty.
C11_Witness ==
    /\ main_pc = "cleanup_slave"
    /\ serial = "closed" /\ pty_master = "open"
    /\ incoming_pc = "reading" /\ outgoing_pc = "reading"
    /\ device_writes = 1 /\ client_writes = 1

\* -------------------------------------------- properties: when pumps end
\* C12: a pump that has been started is running unless one of its own reads
\* or writes has raised, and the step in which a running pump ends is a read
\* or a write of its own that raises; an empty or timed-out read is no such
\* step.
C12_PumpsEndOnlyByIoError ==
    /\ [](\A d \in Direction :
            (pump_pc(d) # "unstarted" /\ d \notin io_errors) => pump_live(d))
    /\ [][ \A d \in Direction :
             (pump_live(d) /\ ~pump_live(d)')
                => /\ pump_pc(d) \in {"read", "reading", "write"}
                   /\ d \notin io_errors
                   /\ d \in io_errors' ]_vars

\* No read or write has raised; the incoming pump got an empty result and
\* then a chunk, the outgoing pump has just timed out, and both are reading.
C12_Witness ==
    /\ io_errors = {}
    /\ Len(client_read) = 2 /\ client_read[1] = <<>> /\ client_read[2] # <<>>
    /\ device_writes = 2
    /\ incoming_pc = "reading"
    /\ outgoing_pc = "reading" /\ outgoing_data = <<>>

\* ------------------------------------- properties: main() after a failure
AllOpen ==
    pty_master = "open" /\ pty_slave = "open" /\ serial = "open"

\* C13: with a pump ended by an I/O error and no interrupt, main() is in
\* start() or in one of its joins, never in cleanup() and never returned, and
\* the three handles are open; it has passed the join of a pump only if that
\* pump has ended; it cannot pass the join of a pump that is running, and
\* from the join of the log thread it cannot go on at all.
C13_MainHangsInJoinAfterPumpFailure ==
    (~interrupted /\ io_errors # {})
       => /\ main_pc \in {"start_outgoing", "join_incoming", "join_outgoing",
                          "join_log"}
          /\ AllOpen
          /\ main_pc \in {"join_outgoing", "join_log"} => incoming_pc = "dead"
          /\ main_pc = "join_log" => outgoing_pc = "dead"
          /\ (main_pc = "join_incoming" /\ pump_live(INCOMING))
                => ~ENABLED Join_incoming
          /\ (main_pc = "join_outgoing" /\ pump_live(OUTGOING))
                => ~ENABLED Join_outgoing
          /\ main_pc = "join_log"
                => ~ENABLED (Join_incoming \/ Join_outgoing \/ Cleanup_serial
                               \/ Cleanup_slave \/ Cleanup_master \/ Exit)

\* Both pumps relayed a chunk and then failed; main() waits for the log
\* thread, no interrupt has come, everything is open.
C13_Witness ==
    /\ ~interrupted
    /\ main_pc = "join_log"
    /\ io_errors = {INCOMING, OUTGOING}
    /\ device_writes = 1 /\ client_writes = 1
    /\ AllOpen

\* ------------------------------------ properties: enqueue before the write
\* The chunk the pump of direction d holds.
pump_data(d) == IF d = INCOMING THEN incoming_data ELSE outgoing_data

\* The records of direction d that have been enqueued.
records_enqueued(d) == Len(payloads(enqueued, d))

\* C14: in a mode that accepts the direction, a pump that holds a chunk and
\* has not completed its put has enqueued as many records as writes have
\* returned; a pump about to write has enqueued the record of the chunk it
\* writes, one more than writes have returned; and in Bidirectional mode the
\* records enqueued for a direction are never fewer than the writes returned
\* and exceed them by at most one.
C14_RecordEnqueuedBeforeWrite ==
    \A d \in Direction :
        /\ Accepts(mode, d) =>
              /\ pump_pc(d) \in {"capture", "put"}
                    => /\ records_enqueued(d) = writes_returned(d)
                       /\ records_enqueued(d) = Len(chunks_read(d)) - 1
              /\ pump_pc(d) = "write"
                    => /\ records_enqueued(d) = writes_returned(d) + 1
                       /\ records_enqueued(d) = Len(chunks_read(d))
                       /\ payloads(enqueued, d)[records_enqueued(d)]
                             = pump_data(d)
        /\ mode = BIDIRECTIONAL =>
              records_enqueued(d) - writes_returned(d) \in {0, 1}

\* Bidirectional: each pump has enqueued the record of its first chunk and
\* has not written it yet.
C14_Witness ==
    /\ mode = BIDIRECTIONAL
    /\ incoming_pc = "write" /\ outgoing_pc = "write"
    /\ records_enqueued(INCOMING) = 1 /\ device_writes = 0
    /\ records_enqueued(OUTGOING) = 1 /\ client_writes = 0
    /\ Len(data_queue) = 2

\* ------------------------------------- properties: draining of the queue
\* No record is enqueued before the session is constructed and the log
\* thread started; the records taken are the first of those enqueued, in
\* their order, the rest are queued, and each record taken has been printed.
QueueDrainedInOrder ==
    /\ enqueued # <<>>
          => /\ log_pc = "get"
             /\ main_pc \notin {"openpty", "open_serial", "construct_failed",
                                "start_log", "start_incoming"}
    /\ IsPrefix(dequeued, enqueued)
    /\ Len(dequeued) + Len(data_queue) = Len(enqueued)
    /\ Len(log_out) = Len(dequeued)
    /\ \A i \in 1..Len(log_out) : log_out[i] = render(enqueued[i], columns)

\* The only step that takes a record from the queue is the log sink's, which
\* takes the oldest one and prints it.
OnlyLogSinkDrains ==
    Len(data_queue') < Len(data_queue)
       => /\ log_pc = "get"
          /\ data_queue' = Tail(data_queue)
          /\ dequeued' = Append(dequeued, Head(data_queue))
          /\ Len(log_out') = Len(log_out) + 1
          /\ UNCHANGED <<incoming_vars, outgoing_vars, enqueued>>

\* C15 as stated: the queue exists before a pump can enqueue, one consumer
\* drains it, and with the log sink scheduled fairly every record enqueued is
\* in the end dequeued and printed, once, in the order enqueued.
C15_EveryRecordIsRendered ==
    /\ []QueueDrainedInOrder
    /\ [][OnlyLogSinkDrains]_vars
    /\ \A i \in 1..MaxReads :
          (Len(enqueued) >= i) ~> (Len(log_out) >= i)

\* C15, amended: the same, for as long as the process runs: every record
\* enqueued is in the end dequeued and printed, once, in the order enqueued,
\* unless main() returns or is left by an exception first; the records
\* queued at that moment are never printed.
C15_EveryRecordIsRenderedWhileProcessRuns ==
    /\ []QueueDrainedInOrder
    /\ [][OnlyLogSinkDrains]_vars
    /\ \A i \in 1..MaxReads :
          (Len(enqueued) >= i) ~> (Len(log_out) >= i \/ ~ProcessAlive)

\* Records of both directions were queued together and have been printed in
\* the order enqueued, in a process that is still running.
C15_Witness ==
    /\ ProcessAlive
    /\ Len(enqueued) = 2 /\ enqueued[1].direction # enqueued[2].direction
    /\ dequeued = enqueued
    /\ Len(log_out) = 2
    /\ data_queue = <<>>

\* --------------------------------------------- properties: empty payloads
\* C16: every record ever enqueued carries at least one byte, and no block
\* the log sink has printed is a header of 0 bytes without a body line.
C16_NoEmptyRecordIsEnqueued ==
    /\ \A i \in 1..Len(enqueued) : enqueued[i].data # <<>>
    /\ \A i \in 1..Len(log_out) :
          log_out[i].header.data_len > 0 /\ log_out[i].body # <<>>

\* The same of the outgoing pump alone, whose loop has the `if data:`.
OutgoingRecordsCarryBytes ==
    \A i \in 1..Len(enqueued) :
        enqueued[i].direction = OUTGOING => enqueued[i].data # <<>>

\* --------------------------------- properties: records and delivered bytes
\* A pump has finished with the chunks it has enqueued: it is back at its
\* read, or it has ended.
chunk_handled(d) == pump_pc(d) \in {"read", "reading", "check", "dead"}

\* C17: once a pump has finished handling a chunk, also by a write that
\* raised, the payloads of the records enqueued for its direction have been
\* written in full to its destination.
C17_RecordedBytesAreDelivered ==
    \A d \in Direction :
        chunk_handled(d)
           => IsPrefix(Flatten(payloads(enqueued, d)), bytes_written(d))

\* The same as long as no read or write of the pump has raised.
RecordedBytesAreDeliveredUnlessRaised ==
    \A d \in Direction :
        (chunk_handled(d) /\ d \notin io_errors)
           => IsPrefix(Flatten(payloads(enqueued, d)), bytes_written(d))

\* --------------------------------------- properties: timestamps and order
\* C18 as stated: the records are dequeued in non-decreasing order of their
\* timestamps, whatever their directions.
C18_DequeuedInTimestampOrder ==
    \A i, j \in 1..Len(dequeued) :
        i < j => dequeued[i].time <= dequeued[j].time

\* C18, amended: the records of one direction are enqueued and dequeued in
\* non-decreasing order of their timestamps; records of different directions
\* are dequeued in the order their puts completed, which need not be the
\* order of their timestamps.
C18_DequeuedInTimestampOrderPerDirection ==
    /\ \A i, j \in 1..Len(dequeued) :
          (i < j /\ dequeued[i].direction = dequeued[j].direction)
             => dequeued[i].time <= dequeued[j].time
    /\ \A i, j \in 1..Len(data_queue) :
          (i < j /\ data_queue[i].direction = data_queue[j].direction)
             => data_queue[i].time <= data_queue[j].time
    /\ \A i \in 1..Len(dequeued) : \A j \in 1..Len(data_queue) :
          dequeued[i].direction = data_queue[j].direction
             => dequeued[i].time <= data_queue[j].time

\* Bidirectional, both pumps running: two records of one direction, queued
\* together behind each other, have been dequeued.
C18_Witness ==
    /\ mode = BIDIRECTIONAL
    /\ pump_live(INCOMING) /\ pump_live(OUTGOING)
    /\ Len(dequeued) = 2
    /\ dequeued[1].direction = dequeued[2].direction
    /\ dequeued[1].time < dequeued[2].time
    /\ Len(log_out) = 2

\* Two records of different directions have been dequeued, the one stamped
\* later first.
TimestampsInvertedAcrossDirections ==
    /\ Len(dequeued) = 2
    /\ dequeued[1].direction # dequeued[2].direction
    /\ dequeued[1].time > dequeued[2].time

\* ------------------------------------ properties: failed construction
\* C19: after a failed construction no endpoint handle is open.
C19_NoHandleLeakedByFailedConstruction ==
    main_pc = "construct_failed"
       => pty_master # "open" /\ pty_slave # "open" /\ serial # "open"

\* What holds instead: a construction that fails in os.openpty() leaves
\* nothing open, one that fails after it leaves both sides of the pty open.
FailedConstructionLeavesPtyAsItWas ==
    main_pc = "construct_failed"
       => /\ serial = "unopened"
          /\ pty_master = pty_slave
          /\ pty_master \in {"unopened", "open"}

====
